---------------------------- MODULE Spec2Model ----------------------------
(***************************************************************************)
(* DrCov coverage-log parser (src/drcov.py, src/base.py).                  *)
(*                                                                         *)
(* The input log is a byte stream (a sequence of numbers 0..255).  Python  *)
(* bytes are modelled as sequences of byte values and Python str as        *)
(* sequences of code points; the text of every log of the model is ASCII,  *)
(* so bytes.decode() keeps the numbers and only changes the type.          *)
(* A Python exception is modelled by the name of its class in the err      *)
(* field of a stage's result; "" means the stage returned normally.        *)
(***************************************************************************)
EXTENDS Integers, Sequences, FiniteSets, TLC

(***************************************************************************)
(* Bounds of the model.                                                    *)
(***************************************************************************)
MaxMods == 2
MaxBlocks == 3

(***************************************************************************)
(* Text: the printable ASCII characters in code order, 32..126 (code 96,   *)
(* the grave accent, is spelled out).                                      *)
(***************************************************************************)
Printable ==
  << " ", "!", "\"", "#", "$", "%", "&", "'", "(", ")", "*", "+", ",", "-", ".", "/",
     "0", "1", "2", "3", "4", "5", "6", "7", "8", "9", ":", ";", "<", "=", ">", "?",
     "@", "A", "B", "C", "D", "E", "F", "G", "H", "I", "J", "K", "L", "M", "N", "O",
     "P", "Q", "R", "S", "T", "U", "V", "W", "X", "Y", "Z", "[", "\\", "]", "^", "_",
     "grave", "a", "b", "c", "d", "e", "f", "g", "h", "i", "j", "k", "l", "m", "n", "o",
     "p", "q", "r", "s", "t", "u", "v", "w", "x", "y", "z", "{", "|", "}", "~" >>

Ord(c) == 31 + (CHOOSE i \in 1..Len(Printable) : Printable[i] = c)

\* A literal: the code sequence of a sequence of characters.
B(cs) == [i \in 1..Len(cs) |-> Ord(cs[i])]

NL == <<10>>

\* Optional values: None and a value that is not None.
None == [some |-> FALSE, v |-> <<>>]
Some(v) == [some |-> TRUE, v |-> v]

\* Results of operations that may raise.
Ok(v) == [ok |-> TRUE, v |-> v, e |-> ""]
Raise(e) == [ok |-> FALSE, v |-> 0, e |-> e]

(***************************************************************************)
(* Python bytes / str operations.                                          *)
(***************************************************************************)
RECURSIVE LStrip(_, _)
LStrip(s, drop) ==
  IF s # <<>> /\ Head(s) \in drop THEN LStrip(Tail(s), drop) ELSE s

RECURSIVE RStrip(_, _)
RStrip(s, drop) ==
  IF s # <<>> /\ s[Len(s)] \in drop THEN RStrip(SubSeq(s, 1, Len(s) - 1), drop) ELSE s

StripSet(s, drop) == RStrip(LStrip(s, drop), drop)

\* bytes.strip(): ASCII whitespace.
Strip(s) == StripSet(s, {9, 10, 11, 12, 13, 32})

\* Does sep occur in s at (1-based) index i?
OccursAt(s, sep, i) ==
  /\ i >= 1
  /\ i + Len(sep) - 1 <= Len(s)
  /\ SubSeq(s, i, i + Len(sep) - 1) = sep

\* needle in haystack (substring test; the empty needle is in everything).
Contains(hay, needle) ==
  \E i \in 1..(Len(hay) + 1) : OccursAt(hay, needle, i)

\* x.split(sep), sep non-empty: the list of the parts between occurrences.
RECURSIVE Split(_, _)
Split(s, sep) ==
  IF \E i \in 1..Len(s) : OccursAt(s, sep, i)
    THEN LET i == CHOOSE k \in 1..Len(s) :
                    OccursAt(s, sep, k) /\ \A j \in 1..(k - 1) : ~OccursAt(s, sep, j)
         IN <<SubSeq(s, 1, i - 1)>> \o Split(SubSeq(s, i + Len(sep), Len(s)), sep)
    ELSE <<s>>

\* str.lower() on ASCII.
Lower(s) == [i \in 1..Len(s) |-> IF s[i] >= 65 /\ s[i] <= 90 THEN s[i] + 32 ELSE s[i]]

\* bytes.decode(): UTF-8; an ASCII byte is its own code point.  A byte
\* above 127 starts a multi-byte sequence, which no log of the model holds.
Decode(b) ==
  IF \A i \in 1..Len(b) : b[i] < 128 THEN Ok(b) ELSE Raise("UnicodeDecodeError")

\* Value of a digit character in the given base, or -1.
DigitVal(b, base) ==
  LET v == IF b >= 48 /\ b <= 57 THEN b - 48
           ELSE IF b >= 97 /\ b <= 102 THEN b - 87
           ELSE IF b >= 65 /\ b <= 70 THEN b - 55
           ELSE -1
  IN IF v < base THEN v ELSE -1

RECURSIVE DigitsVal(_, _, _)
DigitsVal(s, base, acc) ==
  IF s = <<>> THEN acc ELSE DigitsVal(Tail(s), base, acc * base + DigitVal(Head(s), base))

\* int(x) and int(x, 16) of a bytes object: surrounding whitespace is
\* ignored, base 16 takes an optional 0x / 0X prefix, and anything else
\* than a non-empty run of digits is a ValueError.  (Signs and digit-group
\* underscores, which int() also takes, occur in no log of the model.)
PyInt(x, base) ==
  LET t == Strip(x)
      hasPrefix == base = 16 /\ Len(t) >= 2 /\ t[1] = 48 /\ t[2] \in {120, 88}
      d == IF hasPrefix THEN SubSeq(t, 3, Len(t)) ELSE t
  IN IF d # <<>> /\ \A i \in 1..Len(d) : DigitVal(d[i], base) >= 0
       THEN Ok(DigitsVal(d, base, 0))
       ELSE Raise("ValueError")

(***************************************************************************)
(* The input stream f (io.BytesIO or a file opened "rb") over the bytes d; *)
(* pos is f.tell().                                                        *)
(***************************************************************************)
\* f.readline(): through the next newline, or to the end of the stream.
ReadLine(d, pos) ==
  LET ends == {k \in (pos + 1)..Len(d) : d[k] = 10}
      stop == IF ends = {} THEN Len(d)
              ELSE CHOOSE k \in ends : \A j \in ends : k <= j
  IN [line |-> SubSeq(d, pos + 1, stop), pos |-> stop]

\* f.read(n): at most n bytes.
Read(d, pos, n) ==
  LET stop == IF pos + n <= Len(d) THEN pos + n ELSE Len(d)
  IN [bytes |-> SubSeq(d, pos + 1, stop), pos |-> stop]

\* A bytes object compared with a str object: never equal in Python 3.
BytesEqStr(b, s) == FALSE

(***************************************************************************)
(* DrcovModule: the Record Decoder.                                        *)
(***************************************************************************)
\* DrcovModule.__init__: the attributes before _parse_module.
NewModule ==
  [id |-> 0, base |-> 0, end |-> 0, size |-> 0, entry |-> 0, checksum |-> 0,
   timestamp |-> 0, path |-> <<>>, filename |-> <<>>, containing_id |-> 0]

\* int(data[i]) / int(data[i], 16) with Python's 0-based index i.
Field(data, i, base) ==
  IF i + 1 > Len(data) THEN Raise("IndexError") ELSE PyInt(data[i + 1], base)

\* os.path.basename (posixpath): the text after the last "/".
Basename(p) ==
  LET slashes == {k \in 1..Len(p) : p[k] = 47}
      i == IF slashes = {} THEN 0 ELSE CHOOSE k \in slashes : \A j \in slashes : j <= k
  IN SubSeq(p, i + 1, Len(p))

\* A filename that loses one surrounding pair of quotes, and only as a pair.
FilenameOnePair(path) ==
  LET c == Basename(path)
  IN IF Len(c) >= 2 /\ c[1] = 39 /\ c[Len(c)] = 39 THEN SubSeq(c, 2, Len(c) - 1) ELSE c

\* os.path.basename(self.path).strip("'")
Filename(path) == StripSet(Basename(path), {39})

\* The first failure of a list of results, or "" when all succeeded.
RECURSIVE FirstError(_)
FirstError(rs) ==
  IF rs = <<>> THEN "" ELSE IF ~Head(rs).ok THEN Head(rs).e ELSE FirstError(Tail(rs))

\* len(data) == 7 in _parse_module_v2: the Windows checksum/timestamp pair.
HasWindowsFieldsV2(data) == Len(data) = 7

\* len(data) == 7 in _parse_module_v3.
HasWindowsFieldsV3(data) == Len(data) = 7

\* len(data) == 7 in _parse_module_v4.
HasWindowsFieldsV4(data) == Len(data) = 7

ParseModuleV1(data) ==
  LET id == Field(data, 0, 10)
      size == Field(data, 1, 10)
      path == IF Len(data) < 3 THEN Raise("IndexError") ELSE Decode(data[3])
      e == FirstError(<<id, size, path>>)
  IN IF e # "" THEN Raise(e)
     ELSE Ok([NewModule EXCEPT !.id = id.v, !.size = size.v, !.path = path.v,
                               !.filename = Filename(path.v)])

ParseModuleV2(data) ==
  LET id == Field(data, 0, 10)
      base == Field(data, 1, 16)
      end == Field(data, 2, 16)
      entry == Field(data, 3, 16)
      win == HasWindowsFieldsV2(data)
      checksum == IF win THEN Field(data, 4, 16) ELSE Ok(0)
      timestamp == IF win THEN Field(data, 5, 16) ELSE Ok(0)
      path == Decode(data[Len(data)])
      e == FirstError(<<id, base, end, entry, checksum, timestamp, path>>)
  IN IF e # "" THEN Raise(e)
     ELSE Ok([NewModule EXCEPT !.id = id.v, !.base = base.v, !.end = end.v,
                               !.entry = entry.v, !.checksum = checksum.v,
                               !.timestamp = timestamp.v, !.path = path.v,
                               !.size = end.v - base.v,
                               !.filename = Filename(path.v)])

ParseModuleV3(data) ==
  LET id == Field(data, 0, 10)
      containing_id == Field(data, 1, 10)
      base == Field(data, 2, 16)
      end == Field(data, 3, 16)
      entry == Field(data, 4, 16)
      win == HasWindowsFieldsV3(data)
      checksum == IF win THEN Field(data, 5, 16) ELSE Ok(0)
      timestamp == IF win THEN Field(data, 6, 16) ELSE Ok(0)
      path == Decode(data[Len(data)])
      e == FirstError(<<id, containing_id, base, end, entry, checksum, timestamp, path>>)
  IN IF e # "" THEN Raise(e)
     ELSE Ok([NewModule EXCEPT !.id = id.v, !.containing_id = containing_id.v,
                               !.base = base.v, !.end = end.v,
                               !.entry = entry.v, !.checksum = checksum.v,
                               !.timestamp = timestamp.v, !.path = path.v,
                               !.size = end.v - base.v,
                               !.filename = Filename(path.v)])

\* Only the v4 decoder sets self.offset: the attribute exists on v4 modules alone.
ParseModuleV4(data) ==
  LET id == Field(data, 0, 10)
      containing_id == Field(data, 1, 10)
      base == Field(data, 2, 16)
      end == Field(data, 3, 16)
      entry == Field(data, 4, 16)
      offset == Field(data, 5, 16)
      win == HasWindowsFieldsV4(data)
      checksum == IF win THEN Field(data, 6, 16) ELSE Ok(0)
      timestamp == IF win THEN Field(data, 7, 16) ELSE Ok(0)
      path == Decode(data[Len(data)])
      e == FirstError(<<id, containing_id, base, end, entry, offset, checksum,
                        timestamp, path>>)
  IN IF e # "" THEN Raise(e)
     ELSE Ok([offset |-> offset.v] @@
             [NewModule EXCEPT !.id = id.v, !.containing_id = containing_id.v,
                               !.base = base.v, !.end = end.v,
                               !.entry = entry.v, !.checksum = checksum.v,
                               !.timestamp = timestamp.v, !.path = path.v,
                               !.size = end.v - base.v,
                               !.filename = Filename(path.v)])

\* DrcovModule(module_data, version): _parse_module.
ParseModule(module_line, version) ==
  LET data == Split(module_line, B(<<",", " ">>))
  IN CASE version = 1 -> ParseModuleV1(data)
       [] version = 2 -> ParseModuleV2(data)
       [] version = 3 -> ParseModuleV3(data)
       [] version = 4 -> ParseModuleV4(data)
       [] OTHER -> Raise("ValueError")

(***************************************************************************)
(* DrcovBasicBlock: a packed ctypes structure of 8 bytes.                  *)
(***************************************************************************)
\* sizeof(DrcovBasicBlock): c_uint32 + c_uint16 + c_uint16 with _pack_ = 1.
BlockBytes == 8

\* A zero-initialised structure, as (DrcovBasicBlock * n)() allocates it.
ZeroBlock == [offset |-> 0, size |-> 0, mod_id |-> 0]

\* The structure laid over 8 bytes of the buffer (little-endian fields).
BlockOfBytes(b) ==
  [offset |-> b[1] + 256 * b[2] + 65536 * b[3] + 16777216 * b[4],
   size   |-> b[5] + 256 * b[6],
   mod_id |-> b[7] + 256 * b[8]]

\* f.readinto(array): copies the bytes the stream still has, at most the
\* size of the array, over the front of the array; what is not covered
\* keeps its zero bytes.  No error is raised on a short read.
ReadInto(d, pos, n) ==
  LET got == Read(d, pos, n * BlockBytes)
      buf == [i \in 1..(n * BlockBytes) |->
                IF i <= Len(got.bytes) THEN got.bytes[i] ELSE 0]
  IN [blocks |-> [k \in 1..n |->
                    BlockOfBytes(SubSeq(buf, (k - 1) * BlockBytes + 1, k * BlockBytes))],
      pos |-> got.pos]

(***************************************************************************)
(* Python dict, in insertion order: a sequence of <<key, value>> pairs     *)
(* with distinct keys.                                                     *)
(***************************************************************************)
DictKeys(dct) == {dct[i][1] : i \in 1..Len(dct)}

DictHas(dct, k) == \E i \in 1..Len(dct) : dct[i][1] = k

DictGet(dct, k) == dct[CHOOSE i \in 1..Len(dct) : dct[i][1] = k][2]

DictSet(dct, k, v) ==
  IF DictHas(dct, k)
    THEN [i \in 1..Len(dct) |-> IF dct[i][1] = k THEN <<k, v>> ELSE dct[i]]
    ELSE Append(dct, <<k, v>>)

(***************************************************************************)
(* DrcovParser: the instance and the stages of a parse.  A stage maps      *)
(* st = [self, pos, err] to the same shape; err # "" is a raised           *)
(* exception, with self as the stage left it.                              *)
(***************************************************************************)
\* CoverageParser.__init__ and DrcovParser.__init__ up to the parse() call.
NewInstance(filepath, data) ==
  [filepath |-> filepath, data |-> data, parsed |-> FALSE,
   version |-> 0, flavor |-> None,
   module_table_count |-> 0, module_table_version |-> 0,
   raw_modules |-> <<>>, parsed_modules |-> <<>>,
   bb_table_count |-> 0, bb_table_is_binary |-> TRUE,
   raw_basic_blocks |-> <<>>, parsed_basic_blocks |-> <<>>,
   bb_hit_count_map |-> <<>>]

\* A check that rejects only the call without any argument.
BadArgumentsNeitherOnly(filepath, data) == ~filepath.some /\ ~data.some

\* The constructor's argument check.
BadArguments(filepath, data) ==
  (~filepath.some /\ ~data.some) \/ (filepath.some /\ data.some)

Fail(st, e) == [st EXCEPT !.err = e]

\* The header check left out: every declared version passes.
VersionSupportedNoAssert(version) == TRUE

\* assert self.version == 2
VersionSupported(version) == version = 2

ParseDrcovHeader(d, st) ==
  LET l1 == ReadLine(d, st.pos)
      version_parts == Split(Strip(l1.line), B(<<":">>))
      version == IF Len(version_parts) < 2 THEN Raise("IndexError")
                 ELSE PyInt(version_parts[2], 10)
      l2 == ReadLine(d, l1.pos)
      flavor_parts == Split(Strip(l2.line), B(<<":">>))
  IN IF ~version.ok
       THEN [st EXCEPT !.pos = l1.pos, !.err = version.e]
     ELSE IF Len(flavor_parts) < 2
       THEN [st EXCEPT !.pos = l2.pos, !.self.version = version.v, !.err = "IndexError"]
     ELSE [st EXCEPT !.pos = l2.pos, !.self.version = version.v,
                     !.self.flavor = Some(flavor_parts[2]),
                     !.err = IF VersionSupported(version.v) THEN "" ELSE "AssertionError"]

ParseModuleTableHeader(d, st) ==
  LET l == ReadLine(d, st.pos)
      s1 == [st EXCEPT !.pos = l.pos]
      parts == Split(Strip(l.line), B(<<":", " ">>))
      field_data == parts[2]
      vc == Split(field_data, B(<<",", " ">>))
      legacy_count == PyInt(field_data, 10)
      version_parts == Split(vc[1], B(<<" ">>))
      version == PyInt(version_parts[2], 10)
      count_parts == Split(vc[2], B(<<" ">>))
      count == PyInt(count_parts[2], 10)
  IN IF Len(parts) # 2 THEN Fail(s1, "ValueError")
     ELSE IF Len(vc) # 2
       THEN IF ~legacy_count.ok THEN Fail(s1, legacy_count.e)
            ELSE [s1 EXCEPT !.self.module_table_count = legacy_count.v,
                            !.self.module_table_version = 1]
     ELSE IF Len(version_parts) # 2 THEN Fail(s1, "ValueError")
     ELSE IF ~version.ok THEN Fail(s1, version.e)
     ELSE IF version.v \notin {2, 3, 4}
       THEN [s1 EXCEPT !.self.module_table_version = version.v, !.err = "ValueError"]
     ELSE IF Len(count_parts) # 2
       THEN [s1 EXCEPT !.self.module_table_version = version.v, !.err = "ValueError"]
     ELSE IF ~count.ok
       THEN [s1 EXCEPT !.self.module_table_version = version.v, !.err = count.e]
     ELSE [s1 EXCEPT !.self.module_table_version = version.v,
                     !.self.module_table_count = count.v]

ParseModuleTableColumns(d, st) ==
  IF st.self.module_table_version = 1 THEN st
  ELSE LET l == ReadLine(d, st.pos)
           parts == Split(Strip(l.line), B(<<":", " ">>))
       IN [st EXCEPT !.pos = l.pos,
                     !.err = IF Len(parts) # 2 THEN "ValueError" ELSE ""]

\* for i in range(0, self.module_table_count): the i remaining iterations.
RECURSIVE ModulesLoop(_, _, _)
ModulesLoop(d, st, i) ==
  IF i <= 0 THEN st
  ELSE LET l == ReadLine(d, st.pos)
           module == ParseModule(Strip(l.line), st.self.module_table_version)
       IN IF ~module.ok THEN [st EXCEPT !.pos = l.pos, !.err = module.e]
          ELSE ModulesLoop(d,
                 [st EXCEPT !.pos = l.pos,
                            !.self.raw_modules = Append(@, module.v)],
                 i - 1)

ParseModuleTableModules(d, st) == ModulesLoop(d, st, st.self.module_table_count)

\* token = "module id"
Token == B(<<"m", "o", "d", "u", "l", "e", " ", "i", "d">>)

\* "module id, start, size:"
TextTableHeader ==
  B(<<"m", "o", "d", "u", "l", "e", " ", "i", "d", ",", " ",
      "s", "t", "a", "r", "t", ",", " ", "s", "i", "z", "e", ":">>)

ParseBBTableHeader(d, st) ==
  LET l == ReadLine(d, st.pos)
      s1 == [st EXCEPT !.pos = l.pos]
      parts == Split(Strip(l.line), B(<<":", " ">>))
      count_parts == Split(parts[2], B(<<" ">>))
      count == PyInt(count_parts[1], 10)
      saved_position == l.pos
      peek == Read(d, saved_position, Len(Token))
  IN IF Len(parts) # 2 THEN Fail(s1, "ValueError")
     ELSE IF Len(count_parts) # 2 THEN Fail(s1, "ValueError")
     ELSE IF ~count.ok THEN Fail(s1, count.e)
     ELSE [s1 EXCEPT !.self.bb_table_count = count.v,
                     !.self.bb_table_is_binary = ~BytesEqStr(peek.bytes, Token),
                     !.pos = saved_position]

\* The text records: the header line is a bytes object compared with a
\* str, and re.match of a str pattern on a bytes line raises TypeError.
ParseBBTableEntries(d, st) ==
  LET n == st.self.bb_table_count
      zeroed == [k \in 1..n |-> ZeroBlock]
      bin == ReadInto(d, st.pos, n)
      l == ReadLine(d, st.pos)
  IN IF st.self.bb_table_is_binary
       THEN [st EXCEPT !.self.raw_basic_blocks = bin.blocks, !.pos = bin.pos]
     ELSE IF ~BytesEqStr(Strip(l.line), TextTableHeader)
       THEN [st EXCEPT !.self.raw_basic_blocks = zeroed, !.pos = l.pos,
                       !.err = "ValueError"]
     ELSE IF n > 0
       THEN [st EXCEPT !.self.raw_basic_blocks = zeroed,
                       !.pos = ReadLine(d, l.pos).pos, !.err = "TypeError"]
     ELSE [st EXCEPT !.self.raw_basic_blocks = zeroed, !.pos = l.pos]

\* A count that is set to 1 on every hit instead of incremented.
CountHitAlwaysOne(inner, offset) == DictSet(inner, offset, 1)

\* self.bb_hit_count_map[mod_id][bb.offset] += 1, or = 1 for a new offset.
CountHit(inner, offset) ==
  IF DictHas(inner, offset) THEN DictSet(inner, offset, DictGet(inner, offset) + 1)
  ELSE DictSet(inner, offset, 1)

RECURSIVE HitCountLoop(_, _)
HitCountLoop(map, bbs) ==
  IF bbs = <<>> THEN map
  ELSE LET bb == Head(bbs)
           m1 == IF DictHas(map, bb.mod_id) THEN map ELSE DictSet(map, bb.mod_id, <<>>)
       IN HitCountLoop(DictSet(m1, bb.mod_id, CountHit(DictGet(m1, bb.mod_id), bb.offset)),
                       Tail(bbs))

GenerateBBHitCountMap(st) ==
  [st EXCEPT !.self.bb_hit_count_map = HitCountLoop(@, st.self.raw_basic_blocks)]

\* ParsedModule(id, filename, base, end, size, checksum, path, entry)
ParsedModule(raw_module) ==
  [id |-> raw_module.id, filename |-> raw_module.filename, base |-> raw_module.base,
   end |-> raw_module.end, size |-> raw_module.size, checksum |-> raw_module.checksum,
   path |-> raw_module.path, entry |-> raw_module.entry]

\* ParsedBasicBlock(offset, size, mod_id)
ParsedBasicBlock(raw_bb) ==
  [offset |-> raw_bb.offset, size |-> raw_bb.size, mod_id |-> raw_bb.mod_id]

ConvertToParsedObjects(st) ==
  [st EXCEPT
     !.self.parsed_modules =
        [i \in 1..Len(st.self.raw_modules) |-> ParsedModule(st.self.raw_modules[i])],
     !.self.parsed_basic_blocks =
        [i \in 1..Len(st.self.raw_basic_blocks) |->
           ParsedBasicBlock(st.self.raw_basic_blocks[i])]]

MarkParsed(st) == [st EXCEPT !.self.parsed = TRUE]

(***************************************************************************)
(* The queries on a parser instance.                                       *)
(***************************************************************************)
\* The first module of the list, in order, among those at the indices
\* hits (the modules that pass the test of a lookup loop), or None.
FirstModule(modules, hits) ==
  IF hits = {} THEN None
  ELSE Some(modules[CHOOSE i \in hits : \A j \in hits : i <= j])

\* module_name.lower() in module.filename.lower()
FuzzyMatch(module_name, module) == Contains(Lower(module.filename), Lower(module_name))

\* The indices of the modules a fuzzy loop would return.
FuzzyHits(modules, module_name) ==
  {i \in 1..Len(modules) : FuzzyMatch(module_name, modules[i])}

\* A strict test that ignores letter case.
StrictMatchIgnoreCase(module_name, module) == Lower(module_name) = Lower(module.filename)

\* module_name == module.filename
StrictMatch(module_name, module) == module_name = module.filename

\* The indices of the modules the strict loop would return.
StrictHits(modules, module_name) ==
  {i \in 1..Len(modules) : StrictMatch(module_name, modules[i])}

\* if "." in module_name: module_name = module_name.split(".")[0]
CleaveExtension(module_name) ==
  IF Contains(module_name, B(<<".">>)) THEN Split(module_name, B(<<".">>))[1]
  ELSE module_name

\* A fuzzy lookup that cleaves the extension before its first pass.
GetModuleCleaveFirst(self, module_name, fuzzy) ==
  LET modules == self.parsed_modules
  IN IF fuzzy
       THEN FirstModule(modules, FuzzyHits(modules, CleaveExtension(module_name)))
       ELSE FirstModule(modules, StrictHits(modules, module_name))

GetModule(self, module_name, fuzzy) ==
  LET modules == self.parsed_modules
      first == FirstModule(modules, FuzzyHits(modules, module_name))
  IN IF fuzzy
       THEN IF first.some THEN first
            ELSE FirstModule(modules, FuzzyHits(modules, CleaveExtension(module_name)))
       ELSE FirstModule(modules, StrictHits(modules, module_name))

\* [bb for bb in self._parsed_basic_blocks if bb.mod_id == mod_id]
RECURSIVE FilterBlocks(_, _)
FilterBlocks(bbs, mod_id) ==
  IF bbs = <<>> THEN <<>>
  ELSE (IF Head(bbs).mod_id = mod_id THEN <<Head(bbs)>> ELSE <<>>)
         \o FilterBlocks(Tail(bbs), mod_id)

\* A query that answers an unresolved name with an empty list.
GetBlocksByModuleSilent(self, module_name) ==
  LET module == GetModule(self, module_name, TRUE)
  IN IF ~module.some THEN Ok(<<>>)
     ELSE Ok(FilterBlocks(self.parsed_basic_blocks, module.v.id))

GetBlocksByModule(self, module_name) ==
  LET module == GetModule(self, module_name, TRUE)
  IN IF ~module.some THEN Raise("ValueError")
     ELSE Ok(FilterBlocks(self.parsed_basic_blocks, module.v.id))

\* The list of (bb_start, count) pairs of self.bb_hit_count_map[mod_id],
\* in the insertion order of the dict; a missing mod_id is a KeyError.
GetHitCountMapByModule(self, module_name) ==
  LET module == GetModule(self, module_name, TRUE)
  IN IF ~module.some THEN Raise("ValueError")
     ELSE IF ~DictHas(self.bb_hit_count_map, module.v.id) THEN Raise("KeyError")
     ELSE Ok(DictGet(self.bb_hit_count_map, module.v.id))

\* The guard left out: parse() always parses.
ParsedGuardOff(self) == FALSE

\* if self._parsed: return
ParsedGuard(self) == self.parsed

(***************************************************************************)
(* The logs given to the parser.  A log is described by its content (log   *)
(* version, module-table version and records, block sequence, block-table  *)
(* encoding) and written out in the on-disk format the parser reads.       *)
(***************************************************************************)
DigitChar(v) == IF v < 10 THEN 48 + v ELSE 87 + v

RECURSIVE Digits(_, _)
Digits(n, base) ==
  IF n < base THEN <<DigitChar(n)>>
  ELSE Digits(n \div base, base) \o <<DigitChar(n % base)>>

\* %u / %d
EncDec(n) == Digits(n, 10)

\* 0x%x
EncHex(n) == B(<<"0", "x">>) \o Digits(n, 16)

RECURSIVE Join(_, _)
Join(parts, sep) ==
  IF parts = <<>> THEN <<>>
  ELSE IF Len(parts) = 1 THEN parts[1]
  ELSE parts[1] \o sep \o Join(Tail(parts), sep)

RECURSIVE Concat(_)
Concat(parts) == IF parts = <<>> THEN <<>> ELSE Head(parts) \o Concat(Tail(parts))

\* DRCOV VERSION: 2 / DRCOV FLAVOR: drcov
EncodeHeader(version) ==
  B(<<"D", "R", "C", "O", "V", " ", "V", "E", "R", "S", "I", "O", "N", ":", " ">>) \o EncDec(version) \o NL
    \o B(<<"D", "R", "C", "O", "V", " ", "F", "L", "A", "V", "O", "R", ":", " ", "d", "r", "c", "o", "v">>) \o NL

\* One module-table record of the given table version; win: with the
\* checksum/timestamp pair.
ModuleFields(m, mtv, win) ==
  LET pair == IF win THEN <<EncHex(m.checksum), EncHex(m.timestamp)>> ELSE <<>>
      addr == <<EncHex(m.base), EncHex(m.end), EncHex(m.entry)>>
  IN IF mtv = 1 THEN <<EncDec(m.id), EncDec(m.size), m.path>>
     ELSE IF mtv = 2 THEN <<EncDec(m.id)>> \o addr \o pair \o <<m.path>>
     ELSE IF mtv = 3
       THEN <<EncDec(m.id), EncDec(m.containing_id)>> \o addr \o pair \o <<m.path>>
     ELSE <<EncDec(m.id), EncDec(m.containing_id)>> \o addr \o <<EncHex(m.offset)>>
            \o pair \o <<m.path>>

EncodeModule(m, mtv, win) == Join(ModuleFields(m, mtv, win), B(<<",", " ">>)) \o NL

\* The column names of a table of version mtv (2..): base is called start,
\* and containing_id and offset appear, from the versions that have them.
ColumnNames(mtv, win) ==
  LET pair == IF win THEN <<B(<<"c", "h", "e", "c", "k", "s", "u", "m">>), B(<<"t", "i", "m", "e", "s", "t", "a", "m", "p">>)>> ELSE <<>>
  IN IF mtv = 2 THEN <<B(<<"i", "d">>), B(<<"b", "a", "s", "e">>), B(<<"e", "n", "d">>), B(<<"e", "n", "t", "r", "y">>)>> \o pair \o <<B(<<"p", "a", "t", "h">>)>>
     ELSE IF mtv = 3
       THEN <<B(<<"i", "d">>), B(<<"c", "o", "n", "t", "a", "i", "n", "i", "n", "g", "_", "i", "d">>), B(<<"s", "t", "a", "r", "t">>), B(<<"e", "n", "d">>), B(<<"e", "n", "t", "r", "y">>)>> \o pair \o <<B(<<"p", "a", "t", "h">>)>>
     ELSE <<B(<<"i", "d">>), B(<<"c", "o", "n", "t", "a", "i", "n", "i", "n", "g", "_", "i", "d">>), B(<<"s", "t", "a", "r", "t">>), B(<<"e", "n", "d">>), B(<<"e", "n", "t", "r", "y">>), B(<<"o", "f", "f", "s", "e", "t">>)>>
            \o pair \o <<B(<<"p", "a", "t", "h">>)>>

\* Module Table: <n>  /  Module Table: version <v>, count <n> and Columns: ...
EncodeModuleTable(mods, mtv, win) ==
  (IF mtv = 1
     THEN B(<<"M", "o", "d", "u", "l", "e", " ", "T", "a", "b", "l", "e", ":", " ">>) \o EncDec(Len(mods)) \o NL
     ELSE B(<<"M", "o", "d", "u", "l", "e", " ", "T", "a", "b", "l", "e", ":", " ", "v", "e", "r", "s", "i", "o", "n", " ">>) \o EncDec(mtv) \o B(<<",", " ", "c", "o", "u", "n", "t", " ">>) \o EncDec(Len(mods)) \o NL
            \o B(<<"C", "o", "l", "u", "m", "n", "s", ":", " ">>) \o Join(ColumnNames(mtv, win), B(<<",", " ">>)) \o NL)
    \o Concat([i \in 1..Len(mods) |-> EncodeModule(mods[i], mtv, win)])

\* bb_entry_t { uint offset; ushort size; ushort mod_id; }, little-endian.
EncodeBlockBinary(bb) ==
  << bb.offset % 256, (bb.offset \div 256) % 256, (bb.offset \div 65536) % 256,
     (bb.offset \div 16777216) % 256,
     bb.size % 256, (bb.size \div 256) % 256,
     bb.mod_id % 256, (bb.mod_id \div 256) % 256 >>

\* module[<mod>]: <0x-hex start>, <decimal size>
EncodeBlockText(bb) ==
  B(<<"m", "o", "d", "u", "l", "e", "[">>) \o EncDec(bb.mod_id) \o B(<<"]", ":", " ">>) \o EncHex(bb.offset) \o B(<<",", " ">>)
    \o EncDec(bb.size) \o NL

\* BB Table: <n> bbs, then the records in the binary or the text encoding.
EncodeBBTable(blocks, enc) ==
  B(<<"B", "B", " ", "T", "a", "b", "l", "e", ":", " ">>) \o EncDec(Len(blocks)) \o B(<<" ", "b", "b", "s">>) \o NL
    \o (IF enc = "text"
          THEN TextTableHeader \o NL
                 \o Concat([i \in 1..Len(blocks) |-> EncodeBlockText(blocks[i])])
          ELSE Concat([i \in 1..Len(blocks) |-> EncodeBlockBinary(blocks[i])]))

\* The whole log, with its last cut bytes missing.
EncodeLog(log) ==
  LET all == EncodeHeader(log.version)
               \o EncodeModuleTable(log.mods, log.mtv, log.win)
               \o EncodeBBTable(log.blocks, log.enc)
  IN SubSeq(all, 1, Len(all) - log.cut)

\* Module records of the logs: the values of a record differ field by field.
ModA ==
  [id |-> 0, containing_id |-> 2, base |-> 16, end |-> 48, entry |-> 18, offset |-> 4,
   checksum |-> 171, timestamp |-> 205, size |-> 32, path |-> B(<<"/", "x", "/", "a", "b">>)]

ModB ==
  [id |-> 1, containing_id |-> 1, base |-> 64, end |-> 256, entry |-> 65, offset |-> 0,
   checksum |-> 7, timestamp |-> 4660, size |-> 192, path |-> B(<<"/", "b", ".", "x">>)]

ModC ==
  [id |-> 2, containing_id |-> 0, base |-> 4096, end |-> 4097, entry |-> 4096,
   offset |-> 512, checksum |-> 0, timestamp |-> 1, size |-> 1, path |-> B(<<"'", "A", "b", "'">>)]

ModulePalette == {ModA, ModB, ModC}

\* Block records of the logs.
BlockPalette ==
  { [offset |-> 16, size |-> 4, mod_id |-> 0],
    [offset |-> 4128, size |-> 260, mod_id |-> 0],
    [offset |-> 16, size |-> 4, mod_id |-> 1] }

\* Module names asked for.
Queries ==
  { B(<<"a", "b">>), B(<<"A", "B">>), B(<<"A", "b">>), B(<<"b">>), B(<<"b", ".", "x">>), B(<<"b", ".", "d">>), B(<<"c", ".", "x">>), B(<<".", "d">>), <<>> }

SeqsUpTo(S, n) == UNION {[1..k -> S] : k \in 0..n}

TableVersions == 1..5

\* Numbers of bytes missing at the end of a binary block table.
Cuts == {1, 5, 8}

DefaultLog ==
  [src |-> "data", version |-> 2, mtv |-> 2, win |-> FALSE, mods |-> <<ModA, ModB>>,
   blocks |-> <<>>, enc |-> "binary", cut |-> 0]

\* Logs that vary the module table.
ModuleLogs ==
  { l \in { [DefaultLog EXCEPT !.mtv = v, !.win = w, !.mods = ms,
                               !.blocks = << [offset |-> 16, size |-> 4, mod_id |-> 0],
                                             [offset |-> 16, size |-> 4, mod_id |-> 1] >>] :
               v \in TableVersions, w \in BOOLEAN,
               ms \in SeqsUpTo(ModulePalette, MaxMods) } :
      ~(l.mtv = 1 /\ l.win) }

\* Logs that vary the block table: the sequence, the encoding, a truncation.
BlockLogs ==
  { [DefaultLog EXCEPT !.blocks = bs, !.enc = e] :
      bs \in SeqsUpTo(BlockPalette, MaxBlocks), e \in {"binary", "text"} }
    \cup
  { [DefaultLog EXCEPT !.blocks = bs, !.cut = c] :
      bs \in SeqsUpTo(BlockPalette, MaxBlocks) \ {<<>>}, c \in Cuts }

\* Logs that declare another log version, and both ways to hand over a log.
HeaderLogs ==
  { [DefaultLog EXCEPT !.version = v, !.enc = e, !.src = s,
                       !.blocks = << [offset |-> 16, size |-> 4, mod_id |-> 0] >>] :
      v \in {1, 2, 3}, e \in {"binary", "text"}, s \in {"data", "file"} }

\* Constructor calls with both or neither of filepath and data.
ArgumentLogs == { [DefaultLog EXCEPT !.src = s] : s \in {"both", "neither"} }

\* Paths with quotes around the whole path, on one side of the last
\* component, in two layers, and inside the name.
QuotedPaths ==
  { B(<<"'", "/", "x", "/", "a", "b", "'">>),
    B(<<"/", "x", "/", "'", "a", "b">>),
    B(<<"'", "'", "a", "b", "'", "'">>),
    B(<<"'", "a", "'", "b", "'">>) }

\* Logs of one module record with a quoted path.
QuoteLogs ==
  { [DefaultLog EXCEPT !.mtv = v, !.mods = << [ModA EXCEPT !.path = p] >>] :
      v \in {1, 2}, p \in QuotedPaths }

Logs == ModuleLogs \cup BlockLogs \cup HeaderLogs \cup ArgumentLogs \cup QuoteLogs

(***************************************************************************)
(* The state machine: one parser instance from its construction on.        *)
(***************************************************************************)
VARIABLES
  log,    \* the content of the log handed to the constructor
  input,  \* the bytes of the log (the data argument, or the file's content)
  self,   \* the attributes of the DrcovParser instance
  pos,    \* position of the stream the parse reads from
  pc,     \* where the constructor / parse() stands
  err,    \* the exception that ended the constructor, and the stage it came from
  ret     \* the call made on the finished instance and what it returned, until
          \* the caller has taken the result

vars == <<log, input, self, pos, pc, err, ret>>

NoErr == [e |-> "", stage |-> ""]

NoRet == [op |-> "none", name |-> <<>>, fuzzy |-> TRUE, raised |-> "", val |-> <<>>]

PathName == B(<<"l", "o", "g", ".", "d", "r", "c", "o", "v">>)

FilepathArg(l) == IF l.src \in {"file", "both"} THEN Some(PathName) ELSE None

DataArg(l, bytes) == IF l.src \in {"data", "both"} THEN Some(bytes) ELSE None

\* open(filepath, "rb") or io.BytesIO(drcov_data): the bytes the parse reads.
Stream == IF self.filepath.some THEN input ELSE self.data.v

St == [self |-> self, pos |-> pos, err |-> ""]

Init ==
  /\ log \in Logs
  /\ input = EncodeLog(log)
  /\ self = NewInstance(None, None)
  /\ pos = 0
  /\ pc = "new"
  /\ err = NoErr
  /\ ret = NoRet

\* The result r of a stage: on to the next stage, or out with the exception.
Advance(r, stage, next) ==
  /\ self' = r.self
  /\ pos' = r.pos
  /\ pc' = IF r.err = "" THEN next ELSE "failed"
  /\ err' = IF r.err = "" THEN err ELSE [e |-> r.err, stage |-> stage]
  /\ UNCHANGED <<log, input, ret>>

\* DrcovParser(filepath, data) up to the call of parse().
Construct ==
  /\ pc = "new"
  /\ IF BadArguments(FilepathArg(log), DataArg(log, input))
       THEN /\ pc' = "failed"
            /\ err' = [e |-> "ValueError", stage |-> "construct"]
            /\ UNCHANGED self
       ELSE /\ self' = NewInstance(FilepathArg(log), DataArg(log, input))
            /\ pc' = "parse"
            /\ UNCHANGED err
  /\ UNCHANGED <<log, input, pos, ret>>

\* parse(): from the constructor, or called again on the finished instance.
Parse ==
  /\ pc \in {"parse", "done"}
  /\ ret = NoRet
  /\ IF ParsedGuard(self)
       THEN /\ ret' = [NoRet EXCEPT !.op = "parse"]
            /\ UNCHANGED <<pc, pos>>
       ELSE /\ pc' = "header"
            /\ pos' = 0
            /\ UNCHANGED ret
  /\ UNCHANGED <<log, input, self, err>>

DoParseDrcovHeader ==
  /\ pc = "header"
  /\ Advance(ParseDrcovHeader(Stream, St), "header", "mt_header")

DoParseModuleTableHeader ==
  /\ pc = "mt_header"
  /\ Advance(ParseModuleTableHeader(Stream, St), "module_table", "mt_columns")

DoParseModuleTableColumns ==
  /\ pc = "mt_columns"
  /\ Advance(ParseModuleTableColumns(Stream, St), "module_table", "mt_modules")

DoParseModuleTableModules ==
  /\ pc = "mt_modules"
  /\ Advance(ParseModuleTableModules(Stream, St), "module_table", "bb_header")

DoParseBBTableHeader ==
  /\ pc = "bb_header"
  /\ Advance(ParseBBTableHeader(Stream, St), "bb_table", "bb_entries")

DoParseBBTableEntries ==
  /\ pc = "bb_entries"
  /\ Advance(ParseBBTableEntries(Stream, St), "bb_table", "hit_count")

DoGenerateBBHitCountMap ==
  /\ pc = "hit_count"
  /\ Advance(GenerateBBHitCountMap(St), "hit_count", "convert")

\* The end of parse(): _convert_to_parsed_objects() and _mark_parsed().
DoConvertAndMark ==
  /\ pc = "convert"
  /\ Advance(MarkParsed(ConvertToParsedObjects(St)), "convert", "done")

CallGetModule ==
  /\ pc = "done"
  /\ ret = NoRet
  /\ \E q \in Queries, fuzzy \in BOOLEAN :
       ret' = [op |-> "get_module", name |-> q, fuzzy |-> fuzzy, raised |-> "",
               val |-> GetModule(self, q, fuzzy)]
  /\ UNCHANGED <<log, input, self, pos, pc, err>>

CallGetBlocksByModule ==
  /\ pc = "done"
  /\ ret = NoRet
  /\ \E q \in Queries :
       LET r == GetBlocksByModule(self, q)
       IN ret' = [op |-> "get_blocks_by_module", name |-> q, fuzzy |-> TRUE,
                  raised |-> r.e, val |-> IF r.ok THEN r.v ELSE <<>>]
  /\ UNCHANGED <<log, input, self, pos, pc, err>>

CallGetHitCountMapByModule ==
  /\ pc = "done"
  /\ ret = NoRet
  /\ \E q \in Queries :
       LET r == GetHitCountMapByModule(self, q)
       IN ret' = [op |-> "get_hit_count_map_by_module", name |-> q, fuzzy |-> TRUE,
                  raised |-> r.e, val |-> IF r.ok THEN r.v ELSE <<>>]
  /\ UNCHANGED <<log, input, self, pos, pc, err>>

\* The caller takes the result of its call; it makes one call at a time.
Return ==
  /\ ret # NoRet
  /\ ret' = NoRet
  /\ UNCHANGED <<log, input, self, pos, pc, err>>

Next ==
  \/ Construct
  \/ Parse
  \/ DoParseDrcovHeader
  \/ DoParseModuleTableHeader
  \/ DoParseModuleTableColumns
  \/ DoParseModuleTableModules
  \/ DoParseBBTableHeader
  \/ DoParseBBTableEntries
  \/ DoGenerateBBHitCountMap
  \/ DoConvertAndMark
  \/ CallGetModule
  \/ CallGetBlocksByModule
  \/ CallGetHitCountMapByModule
  \/ Return

Spec == Init /\ [][Next]_vars

(***************************************************************************)
(* The whole parse of a byte buffer as one function: the stages of         *)
(* _parse_drcov_data in their order, ended by the first exception.         *)
(***************************************************************************)
ParseData(bytes) ==
  LET s0 == [self |-> NewInstance(None, Some(bytes)), pos |-> 0, err |-> ""]
      s1 == ParseDrcovHeader(bytes, s0)
      s2 == IF s1.err # "" THEN s1 ELSE ParseModuleTableHeader(bytes, s1)
      s3 == IF s2.err # "" THEN s2 ELSE ParseModuleTableColumns(bytes, s2)
      s4 == IF s3.err # "" THEN s3 ELSE ParseModuleTableModules(bytes, s3)
      s5 == IF s4.err # "" THEN s4 ELSE ParseBBTableHeader(bytes, s4)
      s6 == IF s5.err # "" THEN s5 ELSE ParseBBTableEntries(bytes, s5)
      s7 == IF s6.err # "" THEN s6 ELSE GenerateBBHitCountMap(s6)
  IN IF s7.err # "" THEN s7 ELSE MarkParsed(ConvertToParsedObjects(s7))

(***************************************************************************)
(* Properties.                                                             *)
(***************************************************************************)
Min(S) == CHOOSE i \in S : \A j \in S : i <= j

\* The dict as a mapping, without its insertion order.
DictFun(dct) == [k \in DictKeys(dct) |-> DictGet(dct, k)]

HitCountFun(map) == [m \in DictKeys(map) |-> DictFun(DictGet(map, m))]

\* The number of records of bbs with the given mod_id and offset.
Occurrences(bbs, mod_id, offset) ==
  Cardinality({i \in 1..Len(bbs) : bbs[i].mod_id = mod_id /\ bbs[i].offset = offset})

RECURSIVE SumCounts(_)
SumCounts(pairs) == IF pairs = <<>> THEN 0 ELSE Head(pairs)[2] + SumCounts(Tail(pairs))

RECURSIVE SumAll(_)
SumAll(map) == IF map = <<>> THEN 0 ELSE SumCounts(Head(map)[2]) + SumAll(Tail(map))

Reorderings(bbs) ==
  {[i \in 1..Len(bbs) |-> bbs[p[i]]] : p \in Permutations(1..Len(bbs))}

OtherEncoding(enc) == IF enc = "text" THEN "binary" ELSE "text"

\* C1: the binary and the text encoding of the same block sequence parse to
\* identical get_basic_blocks() lists: whenever a log has been parsed, the
\* log holding the same content in the other encoding parses too, to the
\* same list.
C1_EncodingsAgree ==
  (pc = "done" /\ ret = NoRet /\ log.cut = 0) =>
     LET other == ParseData(EncodeLog([log EXCEPT !.enc = OtherEncoding(log.enc)]))
     IN /\ other.err = ""
        /\ other.self.parsed_basic_blocks = self.parsed_basic_blocks

\* C2: a binary block table with fewer than n*8 bytes after its header ends
\* the parse in a fatal error: no parsed instance, no block list.
C2_TruncatedIsFatal ==
  (log.enc = "binary" /\ log.cut > 0) =>
     (pc # "done" /\ ~self.parsed /\ self.parsed_basic_blocks = <<>>)

\* The decoded module d holds the fields of the record m as encoded for
\* table version mtv, with (win) or without the checksum/timestamp pair.
RecordDecoded(d, m, mtv, win) ==
  /\ d.id = m.id
  /\ d.path = m.path
  /\ d.containing_id = (IF mtv >= 3 THEN m.containing_id ELSE 0)
  /\ d.base = (IF mtv >= 2 THEN m.base ELSE 0)
  /\ d.end = (IF mtv >= 2 THEN m.end ELSE 0)
  /\ d.entry = (IF mtv >= 2 THEN m.entry ELSE 0)
  /\ d.checksum = (IF win THEN m.checksum ELSE 0)
  /\ d.timestamp = (IF win THEN m.timestamp ELSE 0)
  /\ d.size = (IF mtv = 1 THEN m.size ELSE m.end - m.base)
  /\ (mtv = 4 => "offset" \in DOMAIN d /\ d.offset = m.offset)

RecordLog == log.version = 2 /\ log.mtv \in 1..4 /\ log.src \in {"data", "file"}

\* C3: for every table version 1..4 and every valid record, with or without
\* the checksum/timestamp pair, the Record Decoder succeeds and returns the
\* encoded field values by position (size = end - base, or the literal in v1).
C3_RecordsRoundTrip ==
  RecordLog =>
     /\ ~(pc = "failed" /\ err.stage = "module_table")
     /\ pc \in {"bb_header", "bb_entries", "hit_count", "convert", "done"} =>
          /\ Len(self.raw_modules) = Len(log.mods)
          /\ \A i \in 1..Len(log.mods) :
               RecordDecoded(self.raw_modules[i], log.mods[i], log.mtv, log.win)

\* C4: a log that declares a version other than 2 fails in the header
\* stage: no later stage starts, and the module list, the block list and
\* the hit-count map are empty when the error is raised.
C4_UnsupportedVersionStopsAtHeader ==
  log.version # 2 =>
     /\ pc \in {"new", "parse", "header", "failed"}
     /\ pc = "failed" => err.stage = "header"
     /\ self.raw_modules = <<>> /\ self.parsed_modules = <<>>
     /\ self.raw_basic_blocks = <<>> /\ self.parsed_basic_blocks = <<>>
     /\ self.bb_hit_count_map = <<>>
     /\ ~self.parsed

C4_Witness ==
  /\ log.version = 3
  /\ pc = "failed"
  /\ err = [e |-> "AssertionError", stage |-> "header"]
  /\ self.version = 3

\* C5: after a successful parse the hit-count map holds, for every
\* (mod_id, offset) pair of the block sequence, the number of its
\* occurrences, and no other key; the counts add up to the number of
\* records; and every reordering of the sequence gives the same map.
C5_HitCounts ==
  pc = "done" =>
     LET bbs == self.parsed_basic_blocks
         map == self.bb_hit_count_map
     IN /\ \A i \in 1..Len(bbs) :
             /\ DictHas(map, bbs[i].mod_id)
             /\ DictHas(DictGet(map, bbs[i].mod_id), bbs[i].offset)
             /\ DictGet(DictGet(map, bbs[i].mod_id), bbs[i].offset)
                  = Occurrences(bbs, bbs[i].mod_id, bbs[i].offset)
        /\ \A m \in DictKeys(map) : \A o \in DictKeys(DictGet(map, m)) :
             Occurrences(bbs, m, o) >= 1
        /\ SumAll(map) = Len(bbs)
        /\ \A perm \in Reorderings(self.raw_basic_blocks) :
             HitCountFun(HitCountLoop(<<>>, perm)) = HitCountFun(map)

C5_Witness ==
  /\ pc = "done"
  /\ Len(self.parsed_basic_blocks) = 3
  /\ \E m \in DictKeys(self.bb_hit_count_map) :
       \E o \in DictKeys(DictGet(self.bb_hit_count_map, m)) :
          DictGet(DictGet(self.bb_hit_count_map, m), o) = 2
  /\ SumAll(self.bb_hit_count_map) = 3

\* The name resolves to a module under fuzzy lookup: some filename holds
\* the lowercased name, or the lowercased name cut before its first ".".
BeforeFirstDot(name) ==
  LET dots == {i \in 1..Len(name) : name[i] = 46}
  IN IF dots = {} THEN name ELSE SubSeq(name, 1, Min(dots) - 1)

FirstPassHits(name) ==
  {i \in 1..Len(self.parsed_modules) :
     Contains(Lower(self.parsed_modules[i].filename), Lower(name))}

SecondPassHits(name) ==
  {i \in 1..Len(self.parsed_modules) :
     Contains(Lower(self.parsed_modules[i].filename), Lower(BeforeFirstDot(name)))}

Resolves(name) == FirstPassHits(name) # {} \/ SecondPassHits(name) # {}

ResolvedId(name) ==
  IF FirstPassHits(name) # {} THEN self.parsed_modules[Min(FirstPassHits(name))].id
  ELSE self.parsed_modules[Min(SecondPassHits(name))].id

\* C6: get_hit_count_map_by_module(name) fails only when the name resolves
\* to no module; for a resolved module X it returns exactly one
\* (offset, count) pair per distinct offset among the blocks of X, with
\* the number of those blocks at that offset.
C6_HitCountQuery ==
  ret.op = "get_hit_count_map_by_module" =>
     /\ ret.raised # "" <=> ~Resolves(ret.name)
     /\ Resolves(ret.name) =>
          LET id == ResolvedId(ret.name)
              bbs == self.parsed_basic_blocks
              offsets == {bbs[i].offset : i \in {j \in 1..Len(bbs) : bbs[j].mod_id = id}}
          IN /\ {ret.val[i][1] : i \in 1..Len(ret.val)} = offsets
             /\ Len(ret.val) = Cardinality(offsets)
             /\ \A i \in 1..Len(ret.val) :
                  ret.val[i][2] = Occurrences(bbs, id, ret.val[i][1])

\* C7: get_blocks_by_module(name) raises whenever the name resolves to no
\* module, and otherwise returns exactly the blocks of get_basic_blocks()
\* with the resolved module's id, in table order.
C7_BlocksByModule ==
  ret.op = "get_blocks_by_module" =>
     /\ ~Resolves(ret.name) => ret.raised = "ValueError"
     /\ Resolves(ret.name) =>
          /\ ret.raised = ""
          /\ ret.val = SelectSeq(self.parsed_basic_blocks,
                                 LAMBDA bb : bb.mod_id = ResolvedId(ret.name))

C7_Witness ==
  /\ ret.op = "get_blocks_by_module"
  /\ ~Resolves(ret.name)
  /\ ret.raised = "ValueError"
  /\ self.parsed_modules # <<>>

\* C8: fuzzy get_module(q) returns the first module whose lowercased
\* filename contains the lowercased q; failing that, when q holds a ".",
\* the first module matching q cut before its first "."; otherwise None.
\* A first-pass match of a later module wins over a cut-query match of an
\* earlier module.
C8_FuzzyLookup ==
  (ret.op = "get_module" /\ ret.fuzzy) =>
     LET q == ret.name
         first == FirstPassHits(q)
         second == SecondPassHits(q)
         hasDot == \E i \in 1..Len(q) : q[i] = 46
     IN IF first # {}
          THEN ret.val.some /\ ret.val.v = self.parsed_modules[Min(first)]
        ELSE IF hasDot /\ second # {}
          THEN ret.val.some /\ ret.val.v = self.parsed_modules[Min(second)]
        ELSE ~ret.val.some

C8_Witness ==
  /\ ret.op = "get_module" /\ ret.fuzzy
  /\ FirstPassHits(ret.name) # {} /\ SecondPassHits(ret.name) # {}
  /\ Min(SecondPassHits(ret.name)) < Min(FirstPassHits(ret.name))
  /\ ret.val.some /\ ret.val.v = self.parsed_modules[Min(FirstPassHits(ret.name))]

ExactHits(name) ==
  {i \in 1..Len(self.parsed_modules) : self.parsed_modules[i].filename = name}

\* Some filename differs from the name in letter case only, and none equals it.
CaseMismatch(name) ==
  /\ ExactHits(name) = {}
  /\ \E i \in 1..Len(self.parsed_modules) :
       Lower(self.parsed_modules[i].filename) = Lower(name)

\* C9: strict get_module(q, fuzzy=False) returns the first module whose
\* filename equals q exactly and None otherwise; a query that matches a
\* filename only up to letter case is found by fuzzy and not by strict lookup.
C9_StrictLookup ==
  (ret.op = "get_module" /\ ~ret.fuzzy) =>
     /\ IF ExactHits(ret.name) # {}
          THEN ret.val.some /\ ret.val.v = self.parsed_modules[Min(ExactHits(ret.name))]
          ELSE ~ret.val.some
     /\ CaseMismatch(ret.name) =>
          ~ret.val.some /\ GetModule(self, ret.name, TRUE).some

C9_Witness ==
  /\ ret.op = "get_module" /\ ~ret.fuzzy
  /\ CaseMismatch(ret.name)
  /\ ~ret.val.some
  /\ FirstPassHits(ret.name) # {}

\* C10: parse() on an instance with is_parsed() = true is a no-op: it
\* raises nothing, reads no input and leaves every attribute unchanged.
C10_ReparseIsNoOp ==
  [][(Parse /\ self.parsed) =>
       (self' = self /\ pos' = pos /\ pc' = pc /\ err' = err /\ ret'.raised = "")]_vars

C10_Witness ==
  /\ pc = "done"
  /\ self.parsed
  /\ ret.op = "parse"
  /\ self.raw_modules # <<>> /\ self.raw_basic_blocks # <<>>

\* The text of p after its last "/".
LastComponent(p) ==
  CHOOSE c \in {SubSeq(p, k + 1, Len(p)) : k \in 0..Len(p)} :
    /\ \A i \in 1..Len(c) : c[i] # 47
    /\ Len(c) < Len(p) => p[Len(p) - Len(c)] = 47

Max(S) == CHOOSE i \in S : \A j \in S : j <= i

\* c without the quotes that precede its first and follow its last other character.
WithoutOuterQuotes(c) ==
  LET others == {k \in 1..Len(c) : c[k] # 39}
  IN IF others = {} THEN <<>> ELSE SubSeq(c, Min(others), Max(others))

\* c without one pair of quotes, when it has a quote at both ends.
WithoutOnePair(c) ==
  IF Len(c) >= 2 /\ c[1] = 39 /\ c[Len(c)] = 39 THEN SubSeq(c, 2, Len(c) - 1) ELSE c

QuotedAtOneEndOnly(c) ==
  Len(c) >= 2 /\ ((c[1] = 39) # (c[Len(c)] = 39))

ExactlyOneGiven == FilepathArg(log).some # DataArg(log, input).some

ConstructorError == [e |-> "ValueError", stage |-> "construct"]

\* C12: the constructor succeeds only when exactly one of filepath and data
\* is given; with both or neither it raises its error before any input is
\* read and before any parse stage starts.
C12_ExactlyOneSource ==
  /\ pc \notin {"new", "failed"} => ExactlyOneGiven
  /\ ExactlyOneGiven => err # ConstructorError
  /\ ~ExactlyOneGiven =>
       /\ pc \in {"new", "failed"}
       /\ pc = "failed" => err = ConstructorError
       /\ pos = 0
       /\ self = NewInstance(None, None)
       /\ ret = NoRet

C12_Witness ==
  /\ FilepathArg(log).some /\ DataArg(log, input).some
  /\ pc = "failed"
  /\ err = ConstructorError
  /\ pos = 0

\* The stream stands right behind the line "BB Table: <n> bbs".
BehindBBTableHeader ==
  /\ pos >= 4
  /\ SubSeq(Stream, pos - 3, pos) = B(<<"b", "b", "s">>) \o NL

\* The bytes that follow the stream position are the text "module id".
TokenFollows == Read(Stream, pos, Len(Token)).bytes = Token

\* C13: once the block-table header line is read, the table is classified
\* as text exactly when the next len("module id") bytes of the stream are
\* the text "module id" and as binary otherwise, and the stream stands
\* where it stood before the sniff.
C13_SniffClassifies ==
  pc = "bb_entries" =>
     /\ self.bb_table_is_binary = ~TokenFollows
     /\ BehindBBTableHeader

=============================================================================
